---------------------------- MODULE Spec2Model ----------------------------
(***************************************************************************)
(* NeuroLabel annotation front end (frontend/src/App.tsx and the           *)
(* AnnotationCanvas component): the App state, its handlers and network    *)
(* requests, and the Konva stage (viewport) with its drag, transform and   *)
(* wheel handlers.                                                         *)
(*                                                                         *)
(* Numbers.  Box coordinates, pointer positions and drag deltas are        *)
(* integers.  The viewport scale and offset are JavaScript numbers that    *)
(* the wheel handler multiplies and divides by 1.1 and clamps to 0.1 and   *)
(* 5; they are modelled as exact reals of the form                         *)
(*        sg * mag * 2^e2 * 5^e5 * 11^e11                                  *)
(* (mag a natural number coprime to 2, 5 and 11, kept as a sequence of     *)
(* base-10^4 limbs because 11^17 does not fit a 32-bit integer).  Every    *)
(* scale the handler can produce has mag = 1, so the                       *)
(* division by the scale is exact.  Floating-point rounding is not         *)
(* modelled.                                                               *)
(***************************************************************************)
EXTENDS Integers, Sequences, FiniteSets, Bags, TLC

-----------------------------------------------------------------------------
(* Exact arithmetic for the JavaScript numbers of the viewport.            *)

Limb == 10 ^ 4

Min(a, b) == IF a <= b THEN a ELSE b
Max(a, b) == IF a >= b THEN a ELSE b

\* m * k + carry, for a magnitude m (limbs, least significant first)
RECURSIVE MagMulSmall(_, _, _)
MagMulSmall(m, k, carry) ==
  IF m = <<>>
    THEN IF carry = 0 THEN <<>>
         ELSE <<carry % Limb>> \o MagMulSmall(<<>>, k, carry \div Limb)
    ELSE LET t == Head(m) * k + carry
         IN  <<t % Limb>> \o MagMulSmall(Tail(m), k, t \div Limb)

\* drops most-significant zero limbs
RECURSIVE MagTrim(_)
MagTrim(m) ==
  IF m = <<>> THEN <<>>
  ELSE IF m[Len(m)] = 0 THEN MagTrim(SubSeq(m, 1, Len(m) - 1))
  ELSE m

\* <<quotient limbs of m[1..i], remainder>> of the division by k, with the
\* remainder r carried in from the limbs above i
RECURSIVE MagDivRem(_, _, _, _)
MagDivRem(m, k, i, r) ==
  IF i = 0 THEN <<(<<>>), r>>
  ELSE LET cur  == r * Limb + m[i]
           rest == MagDivRem(m, k, i - 1, cur % k)
       IN  <<rest[1] \o <<cur \div k>>, rest[2]>>

MagDiv(m, k) == MagTrim(MagDivRem(m, k, Len(m), 0)[1])
MagMod(m, k) == MagDivRem(m, k, Len(m), 0)[2]

RECURSIVE MagAdd(_, _, _)
MagAdd(a, b, carry) ==
  IF a = <<>> /\ b = <<>>
    THEN IF carry = 0 THEN <<>> ELSE <<carry>>
    ELSE LET x == IF a = <<>> THEN 0 ELSE Head(a)
             y == IF b = <<>> THEN 0 ELSE Head(b)
             t == x + y + carry
         IN  <<t % Limb>> \o MagAdd(IF a = <<>> THEN <<>> ELSE Tail(a),
                                    IF b = <<>> THEN <<>> ELSE Tail(b),
                                    t \div Limb)

\* a - b - borrow for a >= b (most-significant zero limbs not yet dropped)
RECURSIVE MagSubRaw(_, _, _)
MagSubRaw(a, b, borrow) ==
  IF a = <<>> THEN <<>>
  ELSE LET y == IF b = <<>> THEN 0 ELSE Head(b)
           t == Head(a) - y - borrow
       IN  <<IF t < 0 THEN t + Limb ELSE t>>
             \o MagSubRaw(Tail(a), IF b = <<>> THEN <<>> ELSE Tail(b),
                          IF t < 0 THEN 1 ELSE 0)

MagSub(a, b) == MagTrim(MagSubRaw(a, b, 0))

\* -1, 0, 1 as a < b, a = b, a > b, comparing the limbs i, i-1, ..., 1
RECURSIVE MagCmpFrom(_, _, _)
MagCmpFrom(a, b, i) ==
  IF i = 0 THEN 0
  ELSE IF a[i] < b[i] THEN -1
  ELSE IF a[i] > b[i] THEN 1
  ELSE MagCmpFrom(a, b, i - 1)

MagCmp(a, b) ==
  IF Len(a) < Len(b) THEN -1
  ELSE IF Len(a) > Len(b) THEN 1
  ELSE MagCmpFrom(a, b, Len(a))

\* the largest power of p (2, 5 or 11) by which one MagMulSmall may multiply
ChunkExp(p) == IF p = 2 THEN 17 ELSE IF p = 5 THEN 7 ELSE 5

\* m * p^n
RECURSIVE MagMulPow(_, _, _)
MagMulPow(m, p, n) ==
  IF n = 0 THEN m
  ELSE LET c == Min(n, ChunkExp(p))
       IN  MagMulPow(MagMulSmall(m, p ^ c, 0), p, n - c)

\* a * b, limb i of a at a time (shift is the number of limbs below limb i)
RECURSIVE MagMulFrom(_, _, _)
MagMulFrom(a, b, i) ==
  IF i > Len(a) THEN <<>>
  ELSE MagAdd([j \in 1..(i - 1) |-> 0] \o MagMulSmall(b, a[i], 0),
              MagMulFrom(a, b, i + 1), 0)

MagMul(a, b) == MagTrim(MagMulFrom(a, b, 1))

Zero == [sg |-> 0, mag |-> <<>>, e2 |-> 0, e5 |-> 0, e11 |-> 0]

\* the canonical form of sg * mag * 2^e2 * 5^e5 * 11^e11
RECURSIVE Norm(_, _, _, _, _)
Norm(sg, mag, e2, e5, e11) ==
  IF mag = <<>> \/ sg = 0 THEN Zero
  ELSE IF mag[1] % 2 = 0 THEN Norm(sg, MagDiv(mag, 2), e2 + 1, e5, e11)
  ELSE IF mag[1] % 5 = 0 THEN Norm(sg, MagDiv(mag, 5), e2, e5 + 1, e11)
  ELSE IF MagMod(mag, 11) = 0 THEN Norm(sg, MagDiv(mag, 11), e2, e5, e11 + 1)
  ELSE [sg |-> sg, mag |-> mag, e2 |-> e2, e5 |-> e5, e11 |-> e11]

Abs(i) == IF i < 0 THEN -i ELSE i
Sign(i) == IF i < 0 THEN -1 ELSE IF i = 0 THEN 0 ELSE 1

\* the number i (|i| < 10^8)
Num(i) == Norm(Sign(i), MagTrim(<<Abs(i) % Limb, Abs(i) \div Limb>>), 0, 0, 0)

\* the magnitude of x over the common exponents <<c2, c5, c11>>
Aligned(x, c2, c5, c11) ==
  MagMulPow(MagMulPow(MagMulPow(x.mag, 2, x.e2 - c2), 5, x.e5 - c5),
            11, x.e11 - c11)

Neg(x) == [x EXCEPT !.sg = -x.sg]

Add(x, y) ==
  IF x.sg = 0 THEN y
  ELSE IF y.sg = 0 THEN x
  ELSE LET c2  == Min(x.e2, y.e2)
           c5  == Min(x.e5, y.e5)
           c11 == Min(x.e11, y.e11)
           a   == Aligned(x, c2, c5, c11)
           b   == Aligned(y, c2, c5, c11)
           cmp == MagCmp(a, b)
       IN  IF x.sg = y.sg THEN Norm(x.sg, MagAdd(a, b, 0), c2, c5, c11)
           ELSE IF cmp = 0 THEN Zero
           ELSE IF cmp > 0 THEN Norm(x.sg, MagSub(a, b), c2, c5, c11)
           ELSE Norm(y.sg, MagSub(b, a), c2, c5, c11)

Sub(x, y) == Add(x, Neg(y))

Mul(x, y) ==
  IF x.sg = 0 \/ y.sg = 0 THEN Zero
  ELSE [sg  |-> x.sg * y.sg,
        mag |-> IF y.mag = <<1>> THEN x.mag
                ELSE IF x.mag = <<1>> THEN y.mag
                ELSE MagMul(x.mag, y.mag),
        e2  |-> x.e2 + y.e2, e5 |-> x.e5 + y.e5, e11 |-> x.e11 + y.e11]

\* x / y for a divisor with mag = 1 (every scale is one)
Div(x, y) ==
  IF x.sg = 0 THEN Zero
  ELSE [sg  |-> x.sg * y.sg, mag |-> x.mag,
        e2  |-> x.e2 - y.e2, e5 |-> x.e5 - y.e5, e11 |-> x.e11 - y.e11]

\* -1, 0, 1 as x < y, x = y, x > y
Cmp(x, y) ==
  IF x.sg # y.sg THEN (IF x.sg < y.sg THEN -1 ELSE 1)
  ELSE IF x.sg = 0 THEN 0
  ELSE LET c2  == Min(x.e2, y.e2)
           c5  == Min(x.e5, y.e5)
           c11 == Min(x.e11, y.e11)
       IN  x.sg * MagCmp(Aligned(x, c2, c5, c11), Aligned(y, c2, c5, c11))

Less(x, y) == Cmp(x, y) < 0
Greater(x, y) == Cmp(x, y) > 0

-----------------------------------------------------------------------------
(* Bounds and input sets.                                                  *)

MaxStrays == 1      \* viewport gestures counted by strays, per mounted stage
MaxInFlight == 2    \* requests in flight at once
MaxEdits == 1       \* committed box edits per detection list
MaxZoomExp == 3     \* SpecCanvas: wheel steps away from scale 1
MaxSteps == 2       \* pointer moves of one resize gesture
MaxDownloads == 1   \* files exported

NoFile == "null"
NoSrc == [kind |-> "null", of |-> "null"]
NoImageId == "null"
NoSelection == "null"
NoNode == "null"
NoPointer == <<>>
NoIssue == <<>>

Files == {"a.png"}
ImageIds == {"7"}                   \* image ids of the backend
Ids == {"p", "q"}                   \* strings generateId can return
Thresholds == {20, 25}              \* slider positions, in hundredths
Keys == {"Delete", "Backspace", "Enter"}

\* what the backend can answer with: detections without ids, the
\* confidence in hundredths, the box in image pixels
Car == [label |-> "car", confidence |-> 90,
        box |-> [x1 |-> 10, y1 |-> 10, x2 |-> 30, y2 |-> 30]]
Person == [label |-> "person", confidence |-> 20,
           box |-> [x1 |-> 15, y1 |-> 15, x2 |-> 35, y2 |-> 35]]
ResponseLists == {<<>>, <<Car, Person>>}

Pointers == {<<0, 0>>, <<100, 60>>}
DeltaYs == {-100, 100}
PanDeltas == {<<30, -20>>}
DragDeltas == {<<10, 5>>}
\* the local width and height a resize handle can ask for
ResizeExtents == {<<4, 20>>, <<30, 30>>}

ZeroDims == [width |-> 0, height |-> 0]
NaturalDims == [width |-> 640, height |-> 480]

-----------------------------------------------------------------------------
VARIABLES
  file,                \* App: useState file
  imageSrc,            \* App: useState imageSrc
  detections,          \* App: useState detections, the canonical list
  isLoading,           \* App: useState isLoading
  imageDimensions,     \* App: useState imageDimensions
  history,             \* App: useState history (the ids of its items)
  currentImageId,      \* App: useState currentImageId
  selectedId,          \* App: useState selectedId
  confidenceThreshold, \* App: useState confidenceThreshold, in hundredths
  pending,             \* axios requests in flight, a bag
  decode,              \* URLImage: the useImage hook, "idle" | "loading" | "loaded"
  stageScale,          \* Konva stage: scaleX = scaleY
  stageX, stageY,      \* Konva stage: position
  pointer,             \* Konva stage: last pointer position
  trNode,              \* Konva transformer: the id of the node it is bound to
  strays,              \* pans and wheel events since the first pan or change
                       \* of pointer position (the wheel events before it
                       \* leave the stage position a function of the scale)
  edits,               \* box edits committed to the current list
  issued,              \* the state just before the request issued by the
                       \* last step and that request, if the last step
                       \* issued one
  downloads            \* the files written by exportData, oldest first

appVars == <<file, imageSrc, detections, isLoading, imageDimensions, history,
             currentImageId, selectedId, confidenceThreshold>>
stageVars == <<stageScale, stageX, stageY, pointer, strays>>
vars == <<appVars, pending, decode, stageVars, trNode, edits, issued,
          downloads>>

\* the Stage is rendered only for a non-null imageSrc, with the size of
\* imageDimensions: a 0 x 0 stage receives no pointer or wheel event
StageMounted == imageSrc # NoSrc
CanvasLive == StageMounted /\ imageDimensions # ZeroDims

BlobUrl(f) == [kind |-> "blob", of |-> f]
ImageUrl(id) == [kind |-> "images", of |-> id]

VisibleStrict(list, threshold) ==
  SelectSeq(list, LAMBDA d : d.confidence > threshold)

\* App: visibleDetections
VisibleDetections(list, threshold) ==
  SelectSeq(list, LAMBDA d : d.confidence >= threshold)

visibleDetections == VisibleDetections(detections, confidenceThreshold)

IdsOf(list) == {list[i].id : i \in DOMAIN list}

\* handleDetect, loadHistoryItem: mappedDetections, where ids[i] is what the
\* i-th call of generateId returns
MappedDetections(data, ids) ==
  [i \in DOMAIN data |->
     [id |-> ids[i], label |-> data[i].label,
      confidence |-> data[i].confidence, box |-> data[i].box]]

\* generateId returns a string drawn at random: any of Ids, each time
GeneratedIds(data) == [DOMAIN data -> Ids]

\* a removal that takes the last entry when no entry has the id
WithoutIdOrLast(list, id) ==
  IF id \in IdsOf(list) \/ list = <<>>
    THEN SelectSeq(list, LAMBDA d : d.id # id)
    ELSE SubSeq(list, 1, Len(list) - 1)

\* handleKeyDown: prev.filter(d => d.id !== selectedId)
WithoutId(list, id) == SelectSeq(list, LAMBDA d : d.id # id)

\* handleDragEnd, handleTransformEnd: detections.map(...), over the list the
\* canvas was given
WithBox(list, id, newBox) ==
  [i \in DOMAIN list |->
     IF list[i].id = id THEN [list[i] EXCEPT !.box = newBox] ELSE list[i]]

\* the effect of AnnotationCanvas that binds the transformer, run after a
\* render: tr is the binding before it (none on a stage just mounted)
BoundNode(tr, sel, visible, mounted) ==
  IF ~mounted THEN NoNode
  ELSE IF sel # NoSelection
    THEN IF sel \in IdsOf(visible) THEN sel ELSE tr
    ELSE NoNode

\* a render of App followed by the effects of AnnotationCanvas
Rendered ==
  trNode' = BoundNode(IF StageMounted THEN trNode ELSE NoNode, selectedId',
                      VisibleDetections(detections', confidenceThreshold'),
                      imageSrc' # NoSrc)

\* a request in flight: what was asked, and what its continuation closed over
Request(kind, arg, closure) == [kind |-> kind, arg |-> arg, closure |-> closure]
NoClosure == [history |-> {}, currentImageId |-> NoImageId]
FetchHistory == Request("history", NoImageId, NoClosure)
With(bag, r) == bag (+) SetToBag({r})
Without(bag, r) == bag (-) SetToBag({r})
InFlight == BagToSet(pending)
Snapshot == <<imageSrc, currentImageId, detections, selectedId>>

Init ==
  /\ file = NoFile
  /\ imageSrc = NoSrc
  /\ detections = <<>>
  /\ isLoading = FALSE
  /\ imageDimensions = ZeroDims
  /\ history = {}
  /\ currentImageId = NoImageId
  /\ selectedId = NoSelection
  /\ confidenceThreshold = 25
  /\ pending = SetToBag({FetchHistory})
  /\ decode = "idle"
  /\ stageScale = Num(1)
  /\ stageX = Zero
  /\ stageY = Zero
  /\ pointer = NoPointer
  /\ trNode = NoNode
  /\ strays = 0
  /\ edits = 0
  /\ issued = NoIssue
  /\ downloads = <<>>

-----------------------------------------------------------------------------
(* App.tsx: the handlers and the continuations of their requests.          *)

Identity ==
  /\ stageScale' = Num(1)
  /\ stageX' = Zero
  /\ stageY' = Zero
  /\ pointer' = NoPointer
  /\ strays' = 0

\* handleFileChange, for a chosen file f
HandleFileChange(f) ==
  /\ file' = f
  /\ imageSrc' = BlobUrl(f)
  /\ detections' = <<>>
  /\ imageDimensions' = ZeroDims
  /\ currentImageId' = NoImageId
  /\ decode' = "loading"
  /\ edits' = 0
  /\ downloads' = downloads
  /\ issued' = NoIssue
  /\ UNCHANGED <<isLoading, history, selectedId, confidenceThreshold, pending,
                 stageVars>>
  /\ Rendered

\* loadHistoryItem(id) up to its await
LoadHistoryItem(id) ==
  /\ id \in history
  /\ BagCardinality(pending) < MaxInFlight
  /\ isLoading' = TRUE
  /\ currentImageId' = id
  /\ imageSrc' = ImageUrl(id)
  /\ decode' = IF imageSrc = ImageUrl(id) THEN decode ELSE "loading"
  /\ pending' = With(pending, Request("load", id, NoClosure))
  /\ downloads' = downloads
  /\ issued' = <<Snapshot, Request("load", id, NoClosure)>>
  /\ UNCHANGED <<file, detections, imageDimensions, history, selectedId,
                 confidenceThreshold, stageVars, edits>>
  /\ Rendered

\* loadHistoryItem after its await: the response data arrived
LoadHistoryItemDone(r, data, ids) ==
  /\ r.kind = "load"
  /\ detections' = MappedDetections(data, ids)
  /\ file' = NoFile
  /\ imageDimensions' = ZeroDims
  /\ isLoading' = FALSE
  /\ pending' = Without(pending, r)
  /\ edits' = 0
  /\ downloads' = downloads
  /\ issued' = NoIssue
  /\ UNCHANGED <<imageSrc, history, currentImageId, selectedId,
                 confidenceThreshold, decode, stageVars>>
  /\ Rendered

\* loadHistoryItem after its await: the request failed (catch, finally)
LoadHistoryItemFailed(r) ==
  /\ r.kind = "load"
  /\ isLoading' = FALSE
  /\ pending' = Without(pending, r)
  /\ downloads' = downloads
  /\ issued' = NoIssue
  /\ UNCHANGED <<file, imageSrc, detections, imageDimensions, history,
                 currentImageId, selectedId, confidenceThreshold, decode,
                 stageVars, edits>>
  /\ Rendered

\* deleteHistoryItem(id) up to its await; the continuation closes over the
\* history and currentImageId of the render that made the handler
DeleteHistoryItem(id) ==
  /\ id \in history
  /\ BagCardinality(pending) < MaxInFlight
  /\ pending' = With(pending, Request("delete", id, [history |-> history,
                                         currentImageId |-> currentImageId]))
  /\ downloads' = downloads
  /\ issued' = <<Snapshot,
                  Request("delete", id, [history |-> history,
                                         currentImageId |-> currentImageId])>>
  /\ UNCHANGED <<appVars, decode, stageVars, trNode, edits>>

\* deleteHistoryItem after its await: the image was deleted
DeleteHistoryItemDone(r) ==
  /\ r.kind = "delete"
  /\ LET id == r.arg
         closure == r.closure
     IN  /\ history' = closure.history \ {id}
         /\ IF closure.currentImageId = id
              THEN /\ imageSrc' = NoSrc
                   /\ detections' = <<>>
                   /\ currentImageId' = NoImageId
                   /\ decode' = "idle"
                   /\ edits' = 0
                   /\ Identity
              ELSE UNCHANGED <<imageSrc, detections, currentImageId, decode,
                               edits, stageVars>>
  /\ pending' = Without(pending, r)
  /\ downloads' = downloads
  /\ issued' = NoIssue
  /\ UNCHANGED <<file, isLoading, imageDimensions, selectedId,
                 confidenceThreshold>>
  /\ Rendered

\* deleteHistoryItem after its await: the request failed
DeleteHistoryItemFailed(r) ==
  /\ r.kind = "delete"
  /\ pending' = Without(pending, r)
  /\ downloads' = downloads
  /\ issued' = NoIssue
  /\ UNCHANGED <<appVars, decode, stageVars, trNode, edits>>

\* handleDetect up to its await (the button is disabled while isLoading)
HandleDetect ==
  /\ file # NoFile
  /\ ~isLoading
  /\ BagCardinality(pending) < MaxInFlight
  /\ isLoading' = TRUE
  /\ pending' = With(pending, Request("detect", file, NoClosure))
  /\ downloads' = downloads
  /\ issued' = <<Snapshot, Request("detect", file, NoClosure)>>
  /\ UNCHANGED <<file, imageSrc, detections, imageDimensions, history,
                 currentImageId, selectedId, confidenceThreshold, decode,
                 stageVars, edits>>
  /\ Rendered

\* handleDetect after its await: the response arrived; it calls fetchHistory
HandleDetectDone(r, data, ids, imageId) ==
  /\ r.kind = "detect"
  /\ detections' = MappedDetections(data, ids)
  /\ currentImageId' = imageId
  /\ isLoading' = FALSE
  /\ pending' = With(Without(pending, r), FetchHistory)
  /\ edits' = 0
  /\ downloads' = downloads
  /\ issued' = NoIssue
  /\ UNCHANGED <<file, imageSrc, imageDimensions, history, selectedId,
                 confidenceThreshold, decode, stageVars>>
  /\ Rendered

\* handleDetect after its await: the request failed
HandleDetectFailed(r) ==
  /\ r.kind = "detect"
  /\ isLoading' = FALSE
  /\ pending' = Without(pending, r)
  /\ downloads' = downloads
  /\ issued' = NoIssue
  /\ UNCHANGED <<file, imageSrc, detections, imageDimensions, history,
                 currentImageId, selectedId, confidenceThreshold, decode,
                 stageVars, edits>>
  /\ Rendered

\* saveAnnotations up to its await
SaveAnnotations ==
  /\ currentImageId # NoImageId
  /\ BagCardinality(pending) < MaxInFlight
  /\ pending' = With(pending, Request("save", currentImageId, NoClosure))
  /\ downloads' = downloads
  /\ issued' = <<Snapshot, Request("save", currentImageId, NoClosure)>>
  /\ UNCHANGED <<appVars, decode, stageVars, trNode, edits>>

\* saveAnnotations after its await: saved; it calls fetchHistory
SaveAnnotationsDone(r) ==
  /\ r.kind = "save"
  /\ pending' = With(Without(pending, r), FetchHistory)
  /\ downloads' = downloads
  /\ issued' = NoIssue
  /\ UNCHANGED <<appVars, decode, stageVars, trNode, edits>>

\* saveAnnotations after its await: the request failed
SaveAnnotationsFailed(r) ==
  /\ r.kind = "save"
  /\ pending' = Without(pending, r)
  /\ downloads' = downloads
  /\ issued' = NoIssue
  /\ UNCHANGED <<appVars, decode, stageVars, trNode, edits>>

\* fetchHistory after its await: the list arrived
FetchHistoryDone(r, data) ==
  /\ r.kind = "history"
  /\ history' = data
  /\ pending' = Without(pending, r)
  /\ downloads' = downloads
  /\ issued' = NoIssue
  /\ UNCHANGED <<file, imageSrc, detections, isLoading, imageDimensions,
                 currentImageId, selectedId, confidenceThreshold, decode,
                 stageVars, edits>>
  /\ Rendered

\* fetchHistory after its await: the request failed
FetchHistoryFailed(r) ==
  /\ r.kind = "history"
  /\ pending' = Without(pending, r)
  /\ downloads' = downloads
  /\ issued' = NoIssue
  /\ UNCHANGED <<appVars, decode, stageVars, trNode, edits>>

\* handleKeyDown, the window's keydown listener
HandleKeyDown(key) ==
  /\ IF key \in {"Delete", "Backspace"} /\ selectedId # NoSelection
       THEN /\ detections' = WithoutId(detections, selectedId)
            /\ selectedId' = NoSelection
       ELSE UNCHANGED <<detections, selectedId>>
  /\ downloads' = downloads
  /\ issued' = NoIssue
  /\ UNCHANGED <<file, imageSrc, isLoading, imageDimensions, history,
                 currentImageId, confidenceThreshold, pending, decode,
                 stageVars, edits>>
  /\ Rendered

\* the confidence slider's onChange
SetConfidenceThreshold(t) ==
  /\ confidenceThreshold' = t
  /\ downloads' = downloads
  /\ issued' = NoIssue
  /\ UNCHANGED <<file, imageSrc, detections, isLoading, imageDimensions,
                 history, currentImageId, selectedId, pending, decode,
                 stageVars, edits>>
  /\ Rendered

\* selectShape(id), from the onClick of a row of the detection list or of a
\* Rect of the canvas (both render the visible detections only)
SelectShape(id) ==
  /\ selectedId' = id
  /\ downloads' = downloads
  /\ issued' = NoIssue
  /\ UNCHANGED <<file, imageSrc, detections, isLoading, imageDimensions,
                 history, currentImageId, confidenceThreshold, pending, decode,
                 stageVars, edits>>
  /\ Rendered

ListItemClick(id) ==
  /\ id \in IdsOf(visibleDetections)
  /\ SelectShape(id)

\* handleImageLoad, called by URLImage when the decode of the source completes
ImageDecoded ==
  /\ decode = "loading"
  /\ decode' = "loaded"
  /\ imageDimensions' = NaturalDims
  /\ downloads' = downloads
  /\ issued' = NoIssue
  /\ UNCHANGED <<file, imageSrc, detections, isLoading, history,
                 currentImageId, selectedId, confidenceThreshold, pending,
                 stageVars, edits>>
  /\ Rendered

\* JSON.stringify of one entry: its own properties in insertion order, the
\* response's fields and then the id the mapping added
Stringified(d) ==
  << <<"label", d.label>>, <<"confidence", d.confidence>>,
     <<"box", d.box>>, <<"id", d.id>> >>

\* exportData, the onClick of the Export button, which is rendered for a
\* non-null currentImageId
ExportData ==
  /\ currentImageId # NoImageId
  /\ Len(downloads) < MaxDownloads
  /\ downloads' = Append(downloads,
                         [i \in DOMAIN detections |-> Stringified(detections[i])])
  /\ issued' = NoIssue
  /\ UNCHANGED <<appVars, pending, decode, stageVars, trNode, edits>>

-----------------------------------------------------------------------------
(* AnnotationCanvas: the Konva stage, its shapes and the transformer.      *)

scaleBy == Div(Num(11), Num(10))
MinScale == Div(Num(1), Num(10))
MaxScale == Num(5)
MinSize == Num(5)

\* the Rect rendered for detection d: its position and size are the props,
\* its scale (a fraction <<numerator, denominator>>) is 1 between gestures
NodeOf(d) ==
  [id |-> d.id, x |-> d.box.x1, y |-> d.box.y1,
   width |-> d.box.x2 - d.box.x1, height |-> d.box.y2 - d.box.y1,
   scaleX |-> <<1, 1>>, scaleY |-> <<1, 1>>]

\* size * scale, for a size and a scale whose product is an integer
Times(size, scale) == (size * scale[1]) \div scale[2]

\* handleDragEnd, handleTransformEnd: newBox
NewBox(node) ==
  [x1 |-> node.x, y1 |-> node.y,
   x2 |-> node.x + Times(node.width, node.scaleX),
   y2 |-> node.y + Times(node.height, node.scaleY)]

\* the box the transformer hands to boundBoxFunc for a node of local extent
\* <<w, h>>: its width and height are in the stage container's pixels
ClientBox(w, h) ==
  [w |-> w, h |-> h,
   width |-> Mul(Num(w), stageScale), height |-> Mul(Num(h), stageScale)]

\* Transformer boundBoxFunc
BoundBoxFunc(oldBox, newBox) ==
  IF Less(newBox.width, MinSize) \/ Less(newBox.height, MinSize)
    THEN oldBox
    ELSE newBox

\* one pointer move of a resize gesture that asks for the local extent
\* ext = <<w, h>>: the transformer fits the node into the bounded box
Resized(node, ext) ==
  LET oldBox == ClientBox(Times(node.width, node.scaleX),
                          Times(node.height, node.scaleY))
      box    == BoundBoxFunc(oldBox, ClientBox(ext[1], ext[2]))
  IN  [node EXCEPT !.scaleX = <<box.w, node.width>>,
                   !.scaleY = <<box.h, node.height>>]

\* the node after the pointer moves of a resize gesture, in order
RECURSIVE Transformed(_, _)
Transformed(node, steps) ==
  IF steps = <<>> THEN node
  ELSE Transformed(Resized(node, Head(steps)), Tail(steps))

StepSeqs == UNION {[1..n -> ResizeExtents] : n \in 1..MaxSteps}

\* setDetections(newDetections) of handleDragEnd and handleTransformEnd,
\* followed by the render
Commit(id, newBox) ==
  /\ detections' = WithBox(visibleDetections, id, newBox)
  /\ edits' = edits + 1
  /\ downloads' = downloads
  /\ issued' = NoIssue
  /\ UNCHANGED <<file, imageSrc, isLoading, imageDimensions, history,
                 currentImageId, selectedId, confidenceThreshold, pending,
                 decode, stageVars>>
  /\ Rendered

\* a drag of a Rect that the stage follows
HandleDragEndPanning(i, delta) ==
  /\ CanvasLive
  /\ edits < MaxEdits
  /\ i \in DOMAIN visibleDetections
  /\ LET d    == visibleDetections[i]
         node == [NodeOf(d) EXCEPT !.x = @ + delta[1], !.y = @ + delta[2]]
     IN  detections' = WithBox(visibleDetections, d.id, NewBox(node))
  /\ stageX' = Add(stageX, Num(delta[1]))
  /\ stageY' = Add(stageY, Num(delta[2]))
  /\ edits' = edits + 1
  /\ downloads' = downloads
  /\ issued' = NoIssue
  /\ UNCHANGED <<file, imageSrc, isLoading, imageDimensions, history,
                 currentImageId, selectedId, confidenceThreshold, pending,
                 decode, stageScale, pointer, strays>>
  /\ Rendered

\* handleDragEnd, after a drag of the i-th rendered Rect by delta (in the
\* layer's coordinates)
HandleDragEnd(i, delta) ==
  /\ CanvasLive
  /\ edits < MaxEdits
  /\ i \in DOMAIN visibleDetections
  /\ LET d    == visibleDetections[i]
         node == [NodeOf(d) EXCEPT !.x = @ + delta[1], !.y = @ + delta[2]]
     IN  Commit(d.id, NewBox(node))

\* handleTransformEnd, after a resize of the Rect the transformer is bound
\* to (stage.findOne gives the first Rect with the id)
HandleTransformEnd(i, steps) ==
  /\ CanvasLive
  /\ edits < MaxEdits
  /\ i \in DOMAIN visibleDetections
  /\ visibleDetections[i].id = trNode
  /\ \A j \in 1..(i - 1) : visibleDetections[j].id # trNode
  /\ LET d    == visibleDetections[i]
         node == Transformed(NodeOf(d), steps)
     IN  Commit(d.id, NewBox(node))

\* onClick, onTap of a Rect
ShapeClick(id) ==
  /\ CanvasLive
  /\ id \in IdsOf(visibleDetections)
  /\ SelectShape(id)

\* the part of the stage's area that no node covers: the image node spans
\* the image's pixels in the layer and has no hit region until decoded
StageUncovered ==
  \/ decode # "loaded"
  \/ Greater(stageX, Zero)
  \/ Greater(stageY, Zero)
  \/ Less(Add(stageX, Mul(Num(NaturalDims.width), stageScale)),
          Num(imageDimensions.width))
  \/ Less(Add(stageY, Mul(Num(NaturalDims.height), stageScale)),
          Num(imageDimensions.height))

HitTargets == {"stage", "image"}

\* checkDeselect, for a mousedown or touchstart whose target is the stage
\* itself or the image node
CheckDeselect(target) ==
  /\ CanvasLive
  /\ target = "stage" => StageUncovered
  /\ selectedId' = IF target = "stage" THEN NoSelection ELSE selectedId
  /\ downloads' = downloads
  /\ issued' = NoIssue
  /\ UNCHANGED <<file, imageSrc, detections, isLoading, imageDimensions,
                 history, currentImageId, confidenceThreshold, pending, decode,
                 stageVars, edits>>
  /\ Rendered

\* handleWheel: the new scale, before the limits
Zoomed(oldScale, deltaY) ==
  IF deltaY > 0 THEN Div(oldScale, scaleBy) ELSE Mul(oldScale, scaleBy)

NewScaleUnclamped(oldScale, deltaY) == Zoomed(oldScale, deltaY)

\* handleWheel: the new scale, limited to [0.1, 5]
NewScale(oldScale, deltaY) ==
  LET newScale == Zoomed(oldScale, deltaY)
  IN  IF Less(newScale, MinScale) THEN MinScale
      ELSE IF Greater(newScale, MaxScale) THEN MaxScale
      ELSE newScale

\* handleWheel: mousePointTo, one coordinate
MousePointTo(p, stagePos, oldScale) == Div(Sub(Num(p), stagePos), oldScale)

NewPosStale(p, stagePos, oldScale, newScale) ==
  Sub(Num(p), Mul(MousePointTo(p, stagePos, oldScale), oldScale))

\* handleWheel: newPos, one coordinate
NewPos(p, stagePos, oldScale, newScale) ==
  Sub(Num(p), Mul(MousePointTo(p, stagePos, oldScale), newScale))

\* what a wheel event at p costs of the MaxStrays budget
WheelCost(p) ==
  IF strays = 0 /\ (pointer = NoPointer \/ p = pointer) THEN 0 ELSE 1

\* a wheel event that also clears the selection
HandleWheelDeselecting(p, deltaY) ==
  /\ CanvasLive
  /\ strays + WheelCost(p) <= MaxStrays
  /\ stageScale' = NewScale(stageScale, deltaY)
  /\ stageX' = NewPos(p[1], stageX, stageScale, stageScale')
  /\ stageY' = NewPos(p[2], stageY, stageScale, stageScale')
  /\ pointer' = p
  /\ strays' = strays + WheelCost(p)
  /\ selectedId' = NoSelection
  /\ downloads' = downloads
  /\ issued' = NoIssue
  /\ UNCHANGED <<file, imageSrc, detections, isLoading, imageDimensions,
                 history, currentImageId, confidenceThreshold, pending,
                 decode, edits>>
  /\ Rendered

\* handleWheel, for a wheel event at pointer position p
HandleWheel(p, deltaY) ==
  /\ CanvasLive
  /\ strays + WheelCost(p) <= MaxStrays
  /\ LET oldScale == stageScale
         newScale == NewScale(oldScale, deltaY)
     IN  /\ stageScale' = newScale
         /\ stageX' = NewPos(p[1], stageX, oldScale, newScale)
         /\ stageY' = NewPos(p[2], stageY, oldScale, newScale)
  /\ pointer' = p
  /\ strays' = strays + WheelCost(p)
  /\ downloads' = downloads
  /\ issued' = NoIssue
  /\ UNCHANGED <<appVars, pending, decode, trNode, edits>>

\* Stage draggable: a drag that starts on the stage or on the image node
\* (the mousedown runs checkDeselect) moves the stage by the drag delta d
PanStage(target, d) ==
  /\ CanvasLive
  /\ strays < MaxStrays
  /\ target = "stage" => StageUncovered
  /\ selectedId' = IF target = "stage" THEN NoSelection ELSE selectedId
  /\ stageX' = Add(stageX, Num(d[1]))
  /\ stageY' = Add(stageY, Num(d[2]))
  /\ strays' = strays + 1
  /\ downloads' = downloads
  /\ issued' = NoIssue
  /\ UNCHANGED <<file, imageSrc, detections, isLoading, imageDimensions,
                 history, currentImageId, confidenceThreshold, pending, decode,
                 stageScale, pointer, edits>>
  /\ Rendered

-----------------------------------------------------------------------------
(* The events, and the specifications.                                     *)

FileChange == \E f \in Files : HandleFileChange(f)
OpenHistoryItem == \E id \in ImageIds : LoadHistoryItem(id)
OpenHistoryItemDone ==
  \E r \in InFlight, data \in ResponseLists :
    \E ids \in GeneratedIds(data) : LoadHistoryItemDone(r, data, ids)
OpenHistoryItemFailed == \E r \in InFlight : LoadHistoryItemFailed(r)
DeleteItem == \E id \in ImageIds : DeleteHistoryItem(id)
DeleteItemDone == \E r \in InFlight : DeleteHistoryItemDone(r)
DeleteItemFailed == \E r \in InFlight : DeleteHistoryItemFailed(r)
Detect == HandleDetect
DetectDone ==
  \E r \in InFlight, data \in ResponseLists, imageId \in ImageIds :
    \E ids \in GeneratedIds(data) : HandleDetectDone(r, data, ids, imageId)
DetectFailed == \E r \in InFlight : HandleDetectFailed(r)
Save == SaveAnnotations
SaveDone == \E r \in InFlight : SaveAnnotationsDone(r)
SaveFailed == \E r \in InFlight : SaveAnnotationsFailed(r)
HistoryDone ==
  \E r \in InFlight, data \in SUBSET ImageIds : FetchHistoryDone(r, data)
HistoryFailed == \E r \in InFlight : FetchHistoryFailed(r)
KeyDown == \E key \in Keys : HandleKeyDown(key)
SlideThreshold == \E t \in Thresholds : SetConfidenceThreshold(t)
ClickListItem == \E id \in Ids : ListItemClick(id)
ClickShape == \E id \in Ids : ShapeClick(id)
MouseDown == \E target \in HitTargets : CheckDeselect(target)
DragShape ==
  \E i \in DOMAIN visibleDetections, delta \in DragDeltas : HandleDragEnd(i, delta)
ResizeShape ==
  \E i \in DOMAIN visibleDetections, steps \in StepSeqs :
    HandleTransformEnd(i, steps)
Export == ExportData
Wheel == \E p \in Pointers, deltaY \in DeltaYs : HandleWheel(p, deltaY)
Pan == \E target \in HitTargets, d \in PanDeltas : PanStage(target, d)

\* the zoom of SpecCanvas stays between one step below scale 1 and
\* MaxZoomExp steps above it
WheelNear ==
  \E p \in Pointers, deltaY \in DeltaYs :
    /\ NewScale(stageScale, deltaY).e11 \in -1..MaxZoomExp
    /\ HandleWheel(p, deltaY)

\* the application: files, history, requests and their responses, the
\* detection list, the threshold and the selection
Next ==
  \/ FileChange \/ OpenHistoryItem \/ OpenHistoryItemDone
  \/ OpenHistoryItemFailed \/ DeleteItem \/ DeleteItemDone \/ DeleteItemFailed
  \/ Detect \/ DetectDone \/ DetectFailed \/ Save \/ SaveDone \/ SaveFailed
  \/ HistoryDone \/ HistoryFailed \/ KeyDown \/ SlideThreshold
  \/ ClickListItem \/ ImageDecoded

Spec == Init /\ [][Next]_vars

\* the canvas: an image is chosen, decoded and detected, then the gestures
\* on its stage
NextCanvas ==
  \/ FileChange \/ ImageDecoded \/ Detect \/ DetectDone \/ HistoryFailed
  \/ KeyDown \/ SlideThreshold \/ ClickListItem \/ ClickShape \/ MouseDown
  \/ DragShape \/ ResizeShape \/ WheelNear \/ Pan

SpecCanvas == Init /\ [][NextCanvas]_vars

\* the wheel of SpecFrame: events at the stage's origin, within the same
\* range of scales
WheelOrigin ==
  \E deltaY \in DeltaYs :
    /\ NewScale(stageScale, deltaY).e11 \in -1..MaxZoomExp
    /\ HandleWheel(<<0, 0>>, deltaY)

\* the gestures on one detected image: selection, box edits, deletion, the
\* threshold, zoom about the origin and pan
NextFrame ==
  \/ FileChange \/ ImageDecoded \/ Detect \/ DetectDone
  \/ KeyDown \/ SlideThreshold \/ ClickListItem \/ ClickShape \/ MouseDown
  \/ DragShape \/ ResizeShape \/ WheelOrigin \/ Pan

SpecFrame == Init /\ [][NextFrame]_vars

\* the export of lists that were detected, filtered, selected in and deleted
\* from
NextExport ==
  \/ FileChange \/ Detect \/ DetectDone \/ DetectFailed
  \/ HistoryDone \/ HistoryFailed
  \/ KeyDown \/ SlideThreshold \/ ClickListItem \/ Export

SpecExport == Init /\ [][NextExport]_vars

\* the viewport alone: an image is chosen and decoded, then wheel events
\* and pans
NextViewport == FileChange \/ ImageDecoded \/ Wheel \/ Pan

SpecViewport == Init /\ [][NextViewport]_vars

-----------------------------------------------------------------------------
(* Properties.                                                             *)

DistinctIds ==
  \A i, j \in DOMAIN detections :
    i # j => detections[i].id # detections[j].id

Committed(id, newBox) ==
  /\ Len(detections') = Len(detections)
  /\ \A k \in DOMAIN detections :
       /\ detections'[k].id = detections[k].id
       /\ detections'[k] = IF detections[k].id = id
                             THEN [detections[k] EXCEPT !.box = newBox]
                             ELSE detections[k]

\* C1: a committed drag or resize of detection id keeps the length, the ids
\* and the order of the canonical list, gives the entry with that id the new
\* box and leaves every other entry, hidden by the threshold or not, as it
\* was (stated for lists with distinct ids).
C1_UpdateBoxFrame ==
  [][ DistinctIds =>
      /\ \A i \in DOMAIN visibleDetections, delta \in DragDeltas :
           HandleDragEnd(i, delta) =>
             LET d    == visibleDetections[i]
                 node == [NodeOf(d) EXCEPT !.x = @ + delta[1], !.y = @ + delta[2]]
             IN  Committed(d.id, NewBox(node))
      /\ \A i \in DOMAIN visibleDetections, steps \in StepSeqs :
           HandleTransformEnd(i, steps) =>
             LET d == visibleDetections[i]
             IN  Committed(d.id, NewBox(Transformed(NodeOf(d), steps)))
    ]_vars

ValidBox(box) ==
  /\ box.x1 < box.x2
  /\ box.y1 < box.y2
  /\ box.x2 - box.x1 >= 5
  /\ box.y2 - box.y1 >= 5

EditedValid(id) ==
  \A k \in DOMAIN detections' :
    detections'[k].id = id => ValidBox(detections'[k].box)

\* C2: after any drag or resize, at any viewport scale, the stored box of the
\* edited detection has x1 < x2, y1 < y2 and both extents at least 5 image
\* pixels (stated for lists with distinct ids).
C2_BoxInvariant ==
  [][ DistinctIds =>
      /\ \A i \in DOMAIN visibleDetections, delta \in DragDeltas :
           HandleDragEnd(i, delta) => EditedValid(visibleDetections[i].id)
      /\ \A i \in DOMAIN visibleDetections, steps \in StepSeqs :
           HandleTransformEnd(i, steps) => EditedValid(visibleDetections[i].id)
    ]_vars

ScaleInRange == ~Less(stageScale, MinScale) /\ ~Greater(stageScale, MaxScale)

Clamped(deltaY) ==
  LET asked == Zoomed(stageScale, deltaY)
  IN  stageScale' = IF Greater(asked, MaxScale) THEN MaxScale
                    ELSE IF Less(asked, MinScale) THEN MinScale
                    ELSE asked

\* C3: from scale 1, after any sequence of wheel events the scale is within
\* [0.1, 5], and a wheel event that asks for a scale outside the range is
\* carried out with the scale set to the bound it crossed.
C3_ScaleBound ==
  /\ []ScaleInRange
  /\ [][\A p \in Pointers, deltaY \in DeltaYs :
          HandleWheel(p, deltaY) => Clamped(deltaY)]_vars

\* C3 witness: the scale is the upper bound, which only a limited step gives
C3_Witness == stageScale = MaxScale

\* C4: a wheel step leaves the image point under the pointer where it was:
\* (p - offset) / scale is the same before and after the step, limited or not.
C4_PointerAnchored ==
  [][\A p \in Pointers, deltaY \in DeltaYs :
       HandleWheel(p, deltaY) =>
         /\ MousePointTo(p[1], stageX', stageScale')
              = MousePointTo(p[1], stageX, stageScale)
         /\ MousePointTo(p[2], stageY', stageScale')
              = MousePointTo(p[2], stageY, stageScale)]_vars

\* C4 witness: a step limited at the lower bound, taken with the pointer away
\* from the stage's origin after a pan or a change of pointer position
C4_Witness ==
  /\ stageScale = MinScale
  /\ pointer = <<100, 60>>
  /\ strays > 0
  /\ stageX # Zero

\* C5: Delete or Backspace with a detection selected removes exactly the
\* entry with the selected id, leaves the others as they were and in order,
\* and clears the selection.
C5_DeleteSelection ==
  [][\A key \in {"Delete", "Backspace"} :
       (selectedId \in IdsOf(detections) /\ HandleKeyDown(key)) =>
         /\ selectedId' = NoSelection
         /\ Len(detections') = Len(detections) - 1
         /\ \E i \in DOMAIN detections :
              /\ detections[i].id = selectedId
              /\ detections' = SubSeq(detections, 1, i - 1)
                                 \o SubSeq(detections, i + 1, Len(detections))
    ]_vars

KeptIndexes == {i \in DOMAIN detections :
                  detections[i].confidence >= confidenceThreshold}
\* the k-th smallest of a set of indexes
Kth(indexes, k) ==
  CHOOSE i \in indexes : Cardinality({j \in indexes : j <= i}) = k

VisibleIsFilter ==
  /\ Len(visibleDetections) = Cardinality(KeptIndexes)
  /\ \A k \in DOMAIN visibleDetections :
       visibleDetections[k] = detections[Kth(KeptIndexes, k)]

\* C6: the visible list is the entries with confidence >= threshold, in
\* their order, as many as there are such entries, and a change of the
\* threshold leaves the canonical list as it was.
C6_VisibleViewPure ==
  /\ []VisibleIsFilter
  /\ [][\A t \in Thresholds :
          SetConfidenceThreshold(t) => detections' = detections]_vars

\* C6 witness: the threshold was lowered to the confidence of an entry of a
\* two-entry list, and the entry is visible
C6_Witness ==
  /\ confidenceThreshold = 20
  /\ Len(detections) = 2
  /\ \E k \in DOMAIN visibleDetections : visibleDetections[k].confidence = 20

\* C7: the ids of the canonical list are pairwise distinct in every state.
C7_IdsUnique == DistinctIds

\* C8: the selected id is none or the id of an entry of the canonical list
\* (the selection is cleared when the list is replaced or the image changes).
C8_SelectionValid ==
  selectedId = NoSelection \/ selectedId \in IdsOf(detections)

\* C9: when a new image is loaded (a file chosen, a history item opened) the
\* viewport is scale 1, offset (0, 0).
C9_ViewportReset ==
  [][((\E f \in Files : HandleFileChange(f))
        \/ (\E id \in ImageIds : LoadHistoryItem(id)))
       => (stageScale' = Num(1) /\ stageX' = Zero /\ stageY' = Zero)]_vars

Failed(r) ==
  \/ LoadHistoryItemFailed(r)
  \/ HandleDetectFailed(r)
  \/ SaveAnnotationsFailed(r)
  \/ DeleteHistoryItemFailed(r)

\* C10: when a request fails right after it was issued, the image source,
\* the current image id, the canonical list and the selection are what they
\* were just before it was issued.
C10_FailurePreservesState ==
  [][\A r \in InFlight :
       (issued # NoIssue /\ issued[2] = r /\ Failed(r)) =>
         <<imageSrc', currentImageId', detections', selectedId'>> = issued[1]
    ]_vars

\* the handles the transformer should show: those of the selected detection
\* when its shape is drawn, none otherwise
BoundAsSelected ==
  trNode = IF /\ StageMounted
              /\ selectedId # NoSelection
              /\ selectedId \in IdsOf(visibleDetections)
             THEN selectedId
             ELSE NoNode

\* C11: after the effect that binds the transformer has run, the handle set
\* is empty when nothing is selected or the selected detection is hidden by
\* the threshold, and is otherwise bound to the shape of the selected
\* detection (stated for lists with distinct ids and a selection that is an
\* entry of the list).
C11_HandleBinding ==
  (DistinctIds /\ selectedId \in IdsOf(detections) \cup {NoSelection})
    => BoundAsSelected

KeysOf(record) == {record[k][1] : k \in DOMAIN record}
ValueOf(record, key) ==
  LET k == CHOOSE k \in DOMAIN record : record[k][1] = key IN record[k][2]

\* C12: the exported file is an array with one record per entry of the
\* canonical list, in order, each with exactly the fields label, confidence
\* and box.
C12_ExportShape ==
  [][ExportData =>
       LET out == downloads'[Len(downloads')]
       IN  /\ Len(out) = Len(detections)
           /\ \A i \in DOMAIN out :
                /\ KeysOf(out[i]) = {"label", "confidence", "box"}
                /\ ValueOf(out[i], "label") = detections[i].label
                /\ ValueOf(out[i], "confidence") = detections[i].confidence
                /\ ValueOf(out[i], "box") = detections[i].box
    ]_vars

\* no detect or history-load request is in flight after the step
AllApplied ==
  \A q \in BagToSet(pending') : q.kind \notin {"detect", "load"}

\* C13: when a detect and a history-load request were in flight together,
\* once both responses have been applied the canonical list, the current
\* image id and the image source are those of the request answered last
\* (stated for a detect response applied last: the file is null at that
\* point only if a history-load response was applied while the detect request
\* was in flight).
C13_LastResponseWins ==
  [][\A r \in InFlight, data \in ResponseLists, imageId \in ImageIds :
       \A ids \in GeneratedIds(data) :
         (/\ r.kind = "detect"
          /\ file = NoFile
          /\ HandleDetectDone(r, data, ids, imageId)
          /\ AllApplied)
           => /\ detections' = MappedDetections(data, ids)
              /\ currentImageId' = imageId
              /\ imageSrc' = BlobUrl(r.arg)
    ]_vars

\* C14: a pointer-down whose target is neither a detection shape nor a
\* handle (the stage itself, or the displayed image outside every box) clears
\* the selection, whether the pointer is released in place or after a drag.
C14_BackgroundDeselects ==
  [][\A target \in HitTargets :
       (CheckDeselect(target) \/ \E d \in PanDeltas : PanStage(target, d))
         => selectedId' = NoSelection]_vars

\* C15: a pan, from the press on the background to the release, ends in the
\* dispatcher state it began in: a detection selected before the pan is
\* selected after it.
C15_PanKeepsSelection ==
  [][\A target \in HitTargets, d \in PanDeltas :
       PanStage(target, d) => selectedId' = selectedId]_vars

\* the steps that are no pan and no zoom: a shape dragged or resized and
\* committed, a shape or a list row clicked, a press on the background, a
\* key, the threshold slider
BoxOrSelectionStep ==
  \/ \E i \in DOMAIN visibleDetections, delta \in DragDeltas :
       HandleDragEnd(i, delta)
  \/ \E i \in DOMAIN visibleDetections, steps \in StepSeqs :
       HandleTransformEnd(i, steps)
  \/ \E id \in Ids : ShapeClick(id) \/ ListItemClick(id)
  \/ \E target \in HitTargets : CheckDeselect(target)
  \/ \E key \in Keys : HandleKeyDown(key)
  \/ \E t \in Thresholds : SetConfidenceThreshold(t)

\* C16: a gesture that drags or resizes a shape leaves the viewport scale
\* and offset at release as they were at its start, and select, deselect,
\* box commit, delete and threshold change leave the viewport unchanged:
\* a step that changes the scale or the offset is none of these.
C16_ViewportFrame ==
  [][<<stageScale, stageX, stageY>>' # <<stageScale, stageX, stageY>>
       => ~BoxOrSelectionStep]_vars

\* C16 witness: a box was committed on a list shown in a zoomed and shifted
\* viewport, with a detection selected
C16_Witness ==
  /\ edits > 0
  /\ selectedId # NoSelection
  /\ stageScale # Num(1)
  /\ stageX # Zero

\* C17: a box is committed by a drag-end or a transform-end only for the
\* detection that is selected, and that detection is selected after the
\* release.
C17_CommitOnlySelected ==
  [][ /\ \A i \in DOMAIN visibleDetections, delta \in DragDeltas :
           HandleDragEnd(i, delta) =>
             /\ selectedId = visibleDetections[i].id
             /\ selectedId' = selectedId
      /\ \A i \in DOMAIN visibleDetections, steps \in StepSeqs :
           HandleTransformEnd(i, steps) =>
             /\ selectedId = visibleDetections[i].id
             /\ selectedId' = selectedId
    ]_vars

AbsentUpdateIsNoOp ==
  \A id \in Ids \ IdsOf(visibleDetections), box \in {Car.box, Person.box} :
    WithBox(visibleDetections, id, box) = visibleDetections

Settled == decode = "loaded" /\ pending = EmptyBag

\* C20: once the decode of the current image source is complete and no
\* request is in flight, the canvas has the image's natural width and
\* height, whatever the order of the decode and the answer of a history load.
C20_CanvasSized ==
  Settled => imageDimensions = NaturalDims

\* a detect or a history-load request is in flight
Working == \E r \in InFlight : r.kind \in {"detect", "load"}

\* C21: isLoading is true whenever a detect or a history-load request is in
\* flight, and false once none is.
C21_LoadingTracksWork == isLoading <=> Working

=============================================================================
